---- MODULE Spec2Model ----
(***************************************************************************)
(* Execution sampler and status classifier of the JIT visualizer page.     *)
(* src/src/app/page.tsx holds two variants of the page component Home:     *)
(* the "real" variant (lines 1-447, executeFunction measures the workload) *)
(* and the "simulated" variant (lines 449-794, simulateExecution           *)
(* synthesizes a duration).  Both keep the React state                     *)
(*   functions : FunctionRecord[]   logs : string[]   isRunning : boolean  *)
(*                                                                         *)
(* Numbers.  Durations are integers in microseconds (1 ms = 1000).         *)
(* avgTime and optimizationLevel are exact rationals <<n, d>> in lowest    *)
(* terms (d > 0); IEEE rounding of the doubles is not modelled.  A log     *)
(* line is the record [kind, name]: the wall-clock prefix and the numbers  *)
(* printed inside a line are left out.  The state updater passed to        *)
(* setFunctions is applied once per call (production rendering).           *)
(***************************************************************************)
EXTENDS Integers, Sequences, FiniteSets, TLC

VARIABLES
    variant,     \* which page component is mounted: "real" or "simulated"
    functions,   \* useState<FunctionRecord[]>
    logs,        \* useState<string[]>
    isRunning,   \* useState(false)
    round,       \* runSimulation: loop iterations executed by the run in progress
    activeRuns,  \* number of runSimulation invocations that have not returned
    startSum,    \* sum of callCount when the last run since the reset was started
    sampled,     \* per record: samples applied since the last reset
    emitted,     \* the lines passed to addLog by the last step, in order
    lastOp       \* the last step: its kind and the sum of callCount before it

vars == <<variant, functions, logs, isRunning, round, activeRuns, startSum,
          sampled, emitted, lastOp>>

----------------------------------------------------------------------------
(* Program constants *)

OPTIMIZATION_THRESHOLD == 5
HOT_THRESHOLD == 10
OPTIMIZED_THRESHOLD == 20

\* mutant: the loop test is i <= 30
RoundsOneMore == 30 + 1

\* runSimulation: for (let i = 0; i < 30; i++)
Rounds == 30
\* addLog: prev.slice(-50)
LogSlice == 50
\* executeFunction: func.history.slice(-30)
RealHistorySlice == 30
\* simulateExecution: func.history.slice(-20)
SimHistorySlice == 20
\* simulateExecution: Math.max(5, ...), in microseconds
MinSimTime == 5000

\* null of firstTime / bestTime (durations are never negative)
NULL == -1

----------------------------------------------------------------------------
(* Bounds of the model *)

\* no record is sampled beyond this callCount
MaxCalls == 32
\* the records other than the most sampled one receive at most this many
\* samples in all between two resets
MaxOther == 1
\* LongSpec: number of consecutive timed runs without a reset
MaxLongRuns == 25
\* SampleSpec: no record is sampled beyond this callCount
MaxSampleCalls == 8
\* SampleSpec: the timer input varies for this many samples of a record
\* after construction or a reset
MaxVaried == 3

\* The timer input varies for the first sample after construction or a
\* reset and is the nominal one for every later sample.
\* simulated variant: values of Math.random() * 100 + 50, in ms, in [50, 150)
BaseTimes == {50, 149}
\* real variant: measured performance.now() differences, in microseconds
ExecTimes == {100000, 120000}
\* the timer input of the samples that do not vary
Nominal == [real |-> 100000, simulated |-> 100]
\* SampleSpec, real variant: measured differences, in microseconds; 0 is a
\* workload shorter than the resolution of performance.now()
VariedExecTimes == {0, 60000, 75000, 76000, 100000, 120000}
\* SampleSpec, simulated variant: values of Math.random() * 100 + 50, in ms
VariedBaseTimes == {50, 75, 100, 149}

----------------------------------------------------------------------------
(* Arithmetic helpers *)

Max(a, b) == IF a >= b THEN a ELSE b

RECURSIVE GCD(_, _)
GCD(a, b) == IF b = 0 THEN a ELSE GCD(b, a % b)

\* mutant: the quotient is truncated to an integer
RatTruncated(n, d) == <<n \div d, 1>>

\* the rational n/d (d > 0, n >= 0) in lowest terms
Rat(n, d) == LET g == GCD(n, d) IN <<n \div g, d \div g>>
RatLeq(p, q) == p[1] * q[2] <= q[1] * p[2]
RatMin(p, q) == IF RatLeq(p, q) THEN p ELSE q
RatMax(p, q) == IF RatLeq(p, q) THEN q ELSE p
RatAdd(p, q) == Rat(p[1] * q[2] + q[1] * p[2], p[2] * q[2])

\* mutant: slice(0, n), the first n elements, so the newest entry is evicted
SliceFirst(s, n) == IF Len(s) <= n THEN s ELSE SubSeq(s, 1, n)

\* Array.prototype.slice(-n): the last n elements
SliceLast(s, n) == IF Len(s) <= n THEN s ELSE SubSeq(s, Len(s) - n + 1, Len(s))

RECURSIVE SumSeq(_)
SumSeq(s) == IF s = <<>> THEN 0 ELSE Head(s) + SumSeq(Tail(s))

----------------------------------------------------------------------------
(* State after construction *)

RealZeroStats ==
    [callCount |-> 0, totalTime |-> 0, avgTime |-> <<0, 1>>, status |-> "cold",
     optimizationLevel |-> <<0, 1>>, firstTime |-> NULL, bestTime |-> NULL]

SimZeroStats ==
    [callCount |-> 0, totalTime |-> 0, avgTime |-> <<0, 1>>, status |-> "cold",
     optimizationLevel |-> <<0, 1>>]

RealFunctions ==
    << [name |-> "calculateSum", code |-> "calculateSum(arr)",
        stats |-> RealZeroStats, history |-> <<>>, iterations |-> 100],
       [name |-> "fibonacci", code |-> "fibonacci(n)",
        stats |-> RealZeroStats, history |-> <<>>, iterations |-> 1],
       [name |-> "matrixMultiply", code |-> "matrixMultiply(size)",
        stats |-> RealZeroStats, history |-> <<>>, iterations |-> 1] >>

SimFunctions ==
    << [name |-> "calculateSum", code |-> "calculateSum(arr)",
        stats |-> SimZeroStats, history |-> <<>>],
       [name |-> "fibonacci", code |-> "fibonacci(n)",
        stats |-> SimZeroStats, history |-> <<>>],
       [name |-> "multiply", code |-> "multiply(a, b)",
        stats |-> SimZeroStats, history |-> <<>>] >>

Indices == 1..3

TotalCalls(fs) == SumSeq([i \in 1..Len(fs) |-> fs[i].stats.callCount])

Init ==
    /\ variant \in {"real", "simulated"}
    /\ functions = IF variant = "real" THEN RealFunctions ELSE SimFunctions
    /\ logs = <<>>
    /\ isRunning = FALSE
    /\ round = 0
    /\ activeRuns = 0
    /\ startSum = 0
    /\ sampled = [i \in Indices |-> 0]
    /\ emitted = <<>>
    /\ lastOp = [kind |-> "init", pre |-> 0]

----------------------------------------------------------------------------
(* addLog: setLogs(prev => [...prev.slice(-50), line]) *)

Line(kind, name) == [kind |-> kind, name |-> name]

addLog(prev, line) == SliceLast(prev, LogSlice) \o <<line>>

RECURSIVE addLogs(_, _)
addLogs(prev, lines) ==
    IF lines = <<>> THEN prev
    ELSE addLogs(addLog(prev, Head(lines)), Tail(lines))

----------------------------------------------------------------------------
(* Status classifier: the if / else-if chain closing both updaters.  Below *)
(* OPTIMIZATION_THRESHOLD no branch runs and the status is left as it is.  *)

\* mutant: strict comparisons, a record turns hot at 11 samples, not 10
ClassifyStrict(callCount, status) ==
    IF callCount > OPTIMIZED_THRESHOLD THEN "optimized"
    ELSE IF callCount > HOT_THRESHOLD THEN "hot"
    ELSE IF callCount > OPTIMIZATION_THRESHOLD THEN "warming"
    ELSE status

\* mutant: the optimized branch tests equality, so the 21st sample falls
\* through to the hot branch
ClassifyExact(callCount, status) ==
    IF callCount = OPTIMIZED_THRESHOLD THEN "optimized"
    ELSE IF callCount >= HOT_THRESHOLD THEN "hot"
    ELSE IF callCount >= OPTIMIZATION_THRESHOLD THEN "warming"
    ELSE status

Classify(callCount, status) ==
    IF callCount >= OPTIMIZED_THRESHOLD THEN "optimized"
    ELSE IF callCount >= HOT_THRESHOLD THEN "hot"
    ELSE IF callCount >= OPTIMIZATION_THRESHOLD THEN "warming"
    ELSE status

\* mutant: the notification is sent on every sample of a tier, the test of
\* the previous status being left out
TransitionLinesEverySample(name, callCount, status) ==
    IF callCount >= OPTIMIZATION_THRESHOLD
    THEN <<Line(Classify(callCount, status), name)>>
    ELSE <<>>

\* the notification of the branch taken, when the status differs from it
TransitionLines(name, callCount, status) ==
    IF callCount >= OPTIMIZATION_THRESHOLD /\ status # Classify(callCount, status)
    THEN <<Line(Classify(callCount, status), name)>>
    ELSE <<>>

----------------------------------------------------------------------------
(* Real variant: the updater of executeFunction(funcIndex), given the      *)
(* measured executionTime.  Result: the next functions array and the lines *)
(* handed to addLog, in call order.                                        *)

\* ((bestTime - executionTime) / bestTime * 100).toFixed(1), in tenths of a
\* percent, rounded half up
Improvement(bestTime, executionTime) ==
    (2000 * (bestTime - executionTime) + bestTime) \div (2 * bestTime)

\* mutant: Math.min(5, ...) is left out
RealLevelNoMin(firstTime, bestTime) ==
    RatMax(<<0, 1>>, Rat(20 * (firstTime - bestTime), firstTime))

\* Math.min(5, Math.max(0, (1 - bestTime / firstTime) * 20))
RealLevel(firstTime, bestTime) ==
    RatMin(<<5, 1>>, RatMax(<<0, 1>>, Rat(20 * (firstTime - bestTime), firstTime)))

\* mutant: the first execution is not logged
FirstLinesNever(name, firstTime) == <<>>

\* the "first execution" line of a record whose firstTime is null
FirstLines(name, firstTime) ==
    IF firstTime = NULL THEN <<Line("first", name)>> ELSE <<>>

\* the "new best" line: a lower time than a bestTime already set, by more
\* than 5 percent
BestLines(name, bestTime, executionTime) ==
    IF (bestTime = NULL \/ executionTime < bestTime)
       /\ bestTime # NULL /\ Improvement(bestTime, executionTime) > 50
    THEN <<Line("best", name)>> ELSE <<>>

\* mutant: bestTime is overwritten by every sample
NextBestTimeLatest(bestTime, executionTime) == executionTime

\* if (stats.bestTime === null || executionTime < stats.bestTime)
\*   stats.bestTime = executionTime
NextBestTime(bestTime, executionTime) ==
    IF bestTime = NULL \/ executionTime < bestTime THEN executionTime ELSE bestTime

\* mutant: the counter is advanced twice per sample
NextCallCountTwice(callCount) == callCount + 2

\* stats.callCount += 1
NextCallCount(callCount) == callCount + 1

executeFunction(prev, funcIndex, executionTime) ==
    LET func == prev[funcIndex]
        stats == func.stats
        firstTime == IF stats.firstTime = NULL THEN executionTime ELSE stats.firstTime
        bestTime == NextBestTime(stats.bestTime, executionTime)
        callCount == NextCallCount(stats.callCount)
        totalTime == stats.totalTime + executionTime
        level == IF firstTime # NULL /\ firstTime > 0
                 THEN RealLevel(firstTime, bestTime)
                 ELSE stats.optimizationLevel
        newStats == [callCount |-> callCount,
                     totalTime |-> totalTime,
                     avgTime |-> Rat(totalTime, callCount),
                     status |-> Classify(callCount, stats.status),
                     optimizationLevel |-> level,
                     firstTime |-> firstTime,
                     bestTime |-> bestTime]
        newFunc == [func EXCEPT !.stats = newStats,
                                !.history = SliceLast(func.history, RealHistorySlice)
                                            \o <<executionTime>>]
    IN  [functions |-> [prev EXCEPT ![funcIndex] = newFunc],
         lines |-> FirstLines(func.name, stats.firstTime)
                   \o BestLines(func.name, stats.bestTime, executionTime)
                   \o TransitionLines(func.name, callCount, stats.status)]

----------------------------------------------------------------------------
(* Simulated variant: the updater of simulateExecution(funcIndex), given   *)
(* baseTime = Math.random() * 100 + 50 in ms.                              *)

\* mutant: the factor is 1 + optimizationLevel * 0.15
SimExecutionTimeRising(baseTime, level) ==
    Max(MinSimTime, (baseTime * 10 * (100 * level[2] + 15 * level[1])) \div level[2])

\* Math.max(5, baseTime * (1 - optimizationLevel * 0.15)), in microseconds
SimExecutionTime(baseTime, level) ==
    Max(MinSimTime, (baseTime * 10 * (100 * level[2] - 15 * level[1])) \div level[2])

\* mutant: the increments are applied without Math.min
SimLevelUncapped(callCount, level) ==
    IF callCount >= OPTIMIZED_THRESHOLD THEN RatAdd(level, <<1, 2>>)
    ELSE IF callCount >= HOT_THRESHOLD THEN RatAdd(level, <<3, 10>>)
    ELSE IF callCount >= OPTIMIZATION_THRESHOLD THEN RatAdd(level, <<1, 5>>)
    ELSE level

\* the optimizationLevel assignment of the branch taken
SimLevel(callCount, level) ==
    IF callCount >= OPTIMIZED_THRESHOLD THEN RatMin(<<5, 1>>, RatAdd(level, <<1, 2>>))
    ELSE IF callCount >= HOT_THRESHOLD THEN RatMin(<<4, 1>>, RatAdd(level, <<3, 10>>))
    ELSE IF callCount >= OPTIMIZATION_THRESHOLD THEN RatMin(<<2, 1>>, RatAdd(level, <<1, 5>>))
    ELSE level

simulateExecution(prev, funcIndex, baseTime) ==
    LET func == prev[funcIndex]
        stats == func.stats
        executionTime == SimExecutionTime(baseTime, stats.optimizationLevel)
        callCount == NextCallCount(stats.callCount)
        totalTime == stats.totalTime + executionTime
        newStats == [callCount |-> callCount,
                     totalTime |-> totalTime,
                     avgTime |-> Rat(totalTime, callCount),
                     status |-> Classify(callCount, stats.status),
                     optimizationLevel |-> SimLevel(callCount, stats.optimizationLevel)]
        newFunc == [func EXCEPT !.stats = newStats,
                                !.history = SliceLast(func.history, SimHistorySlice)
                                            \o <<executionTime>>]
    IN  [functions |-> [prev EXCEPT ![funcIndex] = newFunc],
         lines |-> TransitionLines(func.name, callCount, stats.status)]

----------------------------------------------------------------------------
(* One sample of record i with timer input x (executionTime in the real    *)
(* variant, baseTime in the simulated one).                                *)

\* mutant: the updater works on the record after the one asked for
SampleShifted(i, x) ==
    IF variant = "real" THEN executeFunction(functions, (i % 3) + 1, x)
                        ELSE simulateExecution(functions, (i % 3) + 1, x)

Sample(i, x) ==
    IF variant = "real" THEN executeFunction(functions, i, x)
                        ELSE simulateExecution(functions, i, x)

CallCount(i) == functions[i].stats.callCount

\* bound of the model: which records may still be sampled.  The most
\* sampled record always may, below MaxCalls.
CanSample(i) ==
    LET c == [j \in Indices |-> IF j = i THEN CallCount(j) + 1 ELSE CallCount(j)]
        top == Max(c[1], Max(c[2], c[3]))
    IN  /\ CallCount(i) < MaxCalls
        /\ c[1] + c[2] + c[3] - top <= MaxOther

\* bound of the model: the timer inputs tried for record i
TimerInputs(i) ==
    IF TotalCalls(functions) = 0
    THEN (IF variant = "real" THEN ExecTimes ELSE BaseTimes)
    ELSE {Nominal[variant]}

\* mutant: the Run button is never disabled
RunNeverDisabled == FALSE

\* disabled={isRunning} of the Run, Reset and Execute Once buttons
RunDisabled == isRunning
ResetDisabled == isRunning
ExecuteDisabled == isRunning

ResetStats == IF variant = "real" THEN RealZeroStats ELSE SimZeroStats

----------------------------------------------------------------------------
(* Actions *)

\* onClick of "Execute Once" on card i
ManualSample ==
    /\ ~ExecuteDisabled
    /\ \E i \in Indices : \E x \in TimerInputs(i) :
         /\ CanSample(i)
         /\ LET r == Sample(i, x) IN
              /\ functions' = r.functions
              /\ logs' = addLogs(logs, r.lines)
              /\ emitted' = r.lines
              /\ sampled' = [sampled EXCEPT ![i] = @ + 1]
              /\ lastOp' = [kind |-> "manual", pre |-> TotalCalls(functions)]
    /\ UNCHANGED <<variant, isRunning, round, activeRuns, startSum>>

\* runSimulation up to its first await: setIsRunning(true), the start line
\* and the first loop iteration
StartRunOn(i, x) ==
    LET r == Sample(i, x)
        lines == <<Line("start", "")>> \o r.lines
    IN  /\ isRunning' = TRUE
        /\ functions' = r.functions
        /\ logs' = addLogs(logs, lines)
        /\ emitted' = lines
        /\ round' = 1
        /\ activeRuns' = activeRuns + 1
        /\ startSum' = TotalCalls(functions)
        /\ sampled' = [sampled EXCEPT ![i] = @ + 1]
        /\ lastOp' = [kind |-> "start", pre |-> TotalCalls(functions)]
        /\ UNCHANGED variant

\* runSimulation resumed by the timer with iterations left: one more sample
RunRoundOn(i, x) ==
    LET r == Sample(i, x) IN
        /\ functions' = r.functions
        /\ logs' = addLogs(logs, r.lines)
        /\ emitted' = r.lines
        /\ round' = round + 1
        /\ sampled' = [sampled EXCEPT ![i] = @ + 1]
        /\ lastOp' = [kind |-> "round", pre |-> TotalCalls(functions)]
        /\ UNCHANGED <<variant, isRunning, activeRuns, startSum>>

StartRun ==
    /\ ~RunDisabled
    /\ TotalCalls(functions) + Rounds <= MaxCalls
    /\ \E i \in Indices : \E x \in TimerInputs(i) :
         CanSample(i) /\ StartRunOn(i, x)

RunRound ==
    /\ activeRuns > 0
    /\ round < Rounds
    /\ \E i \in Indices : \E x \in TimerInputs(i) :
         CanSample(i) /\ RunRoundOn(i, x)

\* runSimulation resumed by the timer after the last iteration
RunEnd ==
    /\ activeRuns > 0
    /\ round >= Rounds
    /\ logs' = addLog(logs, Line("complete", ""))
    /\ emitted' = <<Line("complete", "")>>
    /\ isRunning' = FALSE
    /\ activeRuns' = activeRuns - 1
    /\ round' = 0
    /\ lastOp' = [kind |-> "end", pre |-> TotalCalls(functions)]
    /\ UNCHANGED <<variant, functions, startSum, sampled>>

\* mutant: the reset maps only the records that reached the optimized tier
resetAllOnlyOptimized ==
    /\ ~ResetDisabled
    /\ functions' = [i \in 1..Len(functions) |->
                       IF CallCount(i) >= OPTIMIZED_THRESHOLD
                       THEN [functions[i] EXCEPT !.stats = ResetStats, !.history = <<>>]
                       ELSE functions[i]]
    /\ logs' = addLog(<<>>, Line("reset", ""))
    /\ emitted' = <<Line("reset", "")>>
    /\ sampled' = [i \in Indices |-> 0]
    /\ startSum' = 0
    /\ lastOp' = [kind |-> "reset", pre |-> TotalCalls(functions)]
    /\ UNCHANGED <<variant, isRunning, round, activeRuns>>

\* mutant: the reset spreads the old record and forgets to replace history
resetAllKeepsHistory ==
    /\ ~ResetDisabled
    /\ functions' = [i \in 1..Len(functions) |->
                       [functions[i] EXCEPT !.stats = ResetStats]]
    /\ logs' = addLog(<<>>, Line("reset", ""))
    /\ emitted' = <<Line("reset", "")>>
    /\ sampled' = [i \in Indices |-> 0]
    /\ startSum' = 0
    /\ lastOp' = [kind |-> "reset", pre |-> TotalCalls(functions)]
    /\ UNCHANGED <<variant, isRunning, round, activeRuns>>

\* onClick of "Reset"
resetAll ==
    /\ ~ResetDisabled
    /\ functions' = [i \in 1..Len(functions) |->
                       [functions[i] EXCEPT !.stats = ResetStats, !.history = <<>>]]
    /\ logs' = addLog(<<>>, Line("reset", ""))
    /\ emitted' = <<Line("reset", "")>>
    /\ sampled' = [i \in Indices |-> 0]
    /\ startSum' = 0
    /\ lastOp' = [kind |-> "reset", pre |-> TotalCalls(functions)]
    /\ UNCHANGED <<variant, isRunning, round, activeRuns>>

Next == ManualSample \/ StartRun \/ RunRound \/ RunEnd \/ resetAll

Spec == Init /\ [][Next]_vars

\* the timer of each await fires, so a suspended run is always resumed
FairSpec == Spec /\ WF_vars(RunRound) /\ WF_vars(RunEnd)

----------------------------------------------------------------------------
(* Long behaviours: timed runs one after another without a reset, every    *)
(* round picking the first record with the nominal timer input.            *)

LongStartRun ==
    /\ ~RunDisabled
    /\ TotalCalls(functions) < Rounds * MaxLongRuns
    /\ StartRunOn(1, Nominal[variant])

LongRunRound ==
    /\ activeRuns > 0
    /\ round < Rounds
    /\ RunRoundOn(1, Nominal[variant])

LongNext == LongStartRun \/ LongRunRound \/ RunEnd

LongSpec == Init /\ [][LongNext]_vars

----------------------------------------------------------------------------
(* Sample sequences: Execute Once clicked again and again on one card,     *)
(* with varied timer inputs, and Reset.  One record is sampled between two *)
(* resets.                                                                 *)

SampleInputs(i) ==
    IF CallCount(i) < MaxVaried
    THEN (IF variant = "real" THEN VariedExecTimes ELSE VariedBaseTimes)
    ELSE {Nominal[variant]}

SampleOnce ==
    /\ ~ExecuteDisabled
    /\ \E i \in Indices : \E x \in SampleInputs(i) :
         /\ CallCount(i) < MaxSampleCalls
         /\ \A j \in Indices \ {i} : CallCount(j) = 0
         /\ LET r == Sample(i, x) IN
              /\ functions' = r.functions
              /\ logs' = addLogs(logs, r.lines)
              /\ emitted' = r.lines
              /\ sampled' = [sampled EXCEPT ![i] = @ + 1]
              /\ lastOp' = [kind |-> "manual", pre |-> TotalCalls(functions)]
    /\ UNCHANGED <<variant, isRunning, round, activeRuns, startSum>>

SampleNext == SampleOnce \/ resetAll

SampleSpec == Init /\ [][SampleNext]_vars

----------------------------------------------------------------------------
(* Properties *)

Stats(i) == functions[i].stats
History(i) == functions[i].history

\* the threshold classification of a call count
Tier(c) ==
    IF c < 5 THEN "cold"
    ELSE IF c < 10 THEN "warming"
    ELSE IF c < 20 THEN "hot"
    ELSE "optimized"

\* cold < warming < hot < optimized
Rank(status) ==
    CASE status = "cold" -> 0
      [] status = "warming" -> 1
      [] status = "hot" -> 2
      [] status = "optimized" -> 3

\* number of occurrences of x in the sequence s
Occurrences(s, x) == Cardinality({k \in 1..Len(s) : s[k] = x})

\* C1: in both variants and in every reachable state, each record's status
\* is the threshold classification of its current callCount (cold below 5,
\* warming from 5, hot from 10, optimized from 20), whatever the
\* interleaving of manual samples, timed-run samples and resets.
StatusIsTierOfCallCount ==
    \A i \in Indices : Stats(i).status = Tier(Stats(i).callCount)

\* a record optimized at its 20th sample in a period that began with a reset
StatusIsTierWitness ==
    /\ logs # <<>> /\ Head(logs).kind = "reset"
    /\ \E i \in Indices : Stats(i).callCount = 20 /\ Stats(i).status = "optimized"
    /\ \E j \in Indices : Stats(j).callCount = 1 /\ Stats(j).status = "cold"

\* C2: a step that is not a reset leaves every record's status equal or
\* higher in the order cold < warming < hot < optimized; in particular an
\* optimized record stays optimized on every further sample.
StatusNeverRegresses ==
    [][lastOp'.kind # "reset" =>
         \A i \in Indices :
            /\ Rank(functions'[i].stats.status) >= Rank(Stats(i).status)
            /\ Stats(i).status = "optimized"
                 => functions'[i].stats.status = "optimized"]_vars

\* a record still optimized at its 25th sample
StatusNeverRegressesWitness ==
    \E i \in Indices : Stats(i).callCount = 25 /\ Stats(i).status = "optimized"

\* the transition lines of record i among the lines of the last step
TransitionCount(lines, i, kind) == Occurrences(lines, Line(kind, functions[i].name))

\* C3: a sample of record i emits the warming / hot / optimized line of that
\* record exactly once if its updated callCount is 5 / 10 / 20 and not at
\* all otherwise; a step that leaves the status of i unchanged, or is no
\* sample of i, emits no transition line of i; the emitted lines are the
\* tail of the log.  The same holds again after every reset.
TransitionNotifiedOnce ==
    [][\A i \in Indices :
         LET c == functions'[i].stats.callCount
             n(kind) == TransitionCount(emitted', i, kind)
         IN  /\ c = Stats(i).callCount + 1 =>
                  /\ n("warming") = (IF c = 5 THEN 1 ELSE 0)
                  /\ n("hot") = (IF c = 10 THEN 1 ELSE 0)
                  /\ n("optimized") = (IF c = 20 THEN 1 ELSE 0)
             /\ (c # Stats(i).callCount + 1
                   \/ functions'[i].stats.status = Stats(i).status) =>
                  n("warming") + n("hot") + n("optimized") = 0
             /\ Len(logs') >= Len(emitted')
             /\ SubSeq(logs', Len(logs') - Len(emitted') + 1, Len(logs')) = emitted'
      ]_vars

\* after a reset a record warms up again and is notified again
TransitionNotifiedWitness ==
    /\ logs # <<>> /\ Head(logs).kind = "reset"
    /\ \E i \in Indices :
         /\ Stats(i).callCount = 5
         /\ emitted = <<Line("warming", functions[i].name)>>
         /\ Occurrences(logs, Line("warming", functions[i].name)) = 1

\* C4: callCount of every record is the number of samples applied to it
\* since the last reset; a sample adds exactly 1 to the callCount of one
\* record, a reset sets all to 0, and no other step changes a callCount.
CallCountCountsSamples ==
    /\ [](\A i \in Indices : Stats(i).callCount = sampled[i])
    /\ [][\/ /\ lastOp'.kind \in {"manual", "start", "round"}
             /\ \E i \in Indices :
                  /\ functions'[i].stats.callCount = Stats(i).callCount + 1
                  /\ \A j \in Indices \ {i} :
                       functions'[j].stats.callCount = Stats(j).callCount
          \/ /\ lastOp'.kind = "reset"
             /\ \A i \in Indices : functions'[i].stats.callCount = 0
          \/ /\ lastOp'.kind = "end"
             /\ \A i \in Indices :
                  functions'[i].stats.callCount = Stats(i).callCount
         ]_vars

\* three samples counted on a record in a period that began with a reset
CallCountCountsSamplesWitness ==
    /\ logs # <<>> /\ Head(logs).kind = "reset"
    /\ \E i \in Indices : Stats(i).callCount = 3 /\ sampled[i] = 3

\* C5: the history of every record holds at most 30 entries in the real
\* variant and at most 20 in the simulated variant.
HistoryWithinBound ==
    \A i \in Indices :
       Len(History(i)) <= (IF variant = "real" THEN 30 ELSE 20)

\* C6: the event log holds at most 50 lines.
LogAtMost50 == Len(logs) <= 50

\* C7: a reset leaves every record with callCount, totalTime, avgTime and
\* optimizationLevel 0, status cold, firstTime and bestTime unset (real
\* variant) and an empty history, and keeps the same records, with the same
\* names and source texts, in the same order.
ResetZeroesEveryRecord ==
    [][lastOp'.kind = "reset" =>
         /\ Len(functions') = Len(functions)
         /\ \A i \in 1..Len(functions) :
              LET f == functions'[i] IN
              /\ f.name = functions[i].name
              /\ f.code = functions[i].code
              /\ f.stats.callCount = 0
              /\ f.stats.totalTime = 0
              /\ f.stats.avgTime = <<0, 1>>
              /\ f.stats.optimizationLevel = <<0, 1>>
              /\ f.stats.status = "cold"
              /\ variant = "real" =>
                   f.stats.firstTime = NULL /\ f.stats.bestTime = NULL
              /\ f.history = <<>>
      ]_vars

\* a reset applied when the records had received more than 20 samples
ResetZeroesWitness ==
    /\ lastOp.kind = "reset" /\ lastOp.pre > 20
    /\ \A i \in Indices : Stats(i).callCount = 0 /\ History(i) = <<>>

\* C8: the driver is idle or running; while it is running the Run and Reset
\* actions are not enabled and one run is in progress, never two; and no
\* step taken while it is running lowers a callCount or empties a history.
DriverRunsOneAtATime ==
    /\ [](/\ isRunning \in BOOLEAN
          /\ activeRuns \in {0, 1}
          /\ isRunning <=> activeRuns = 1
          /\ isRunning => ~ENABLED StartRun /\ ~ENABLED resetAll)
    /\ [][isRunning =>
            \A i \in Indices :
               /\ functions'[i].stats.callCount >= Stats(i).callCount
               /\ History(i) # <<>> => functions'[i].history # <<>>
         ]_vars

\* the driver in the middle of a run
DriverRunsWitness == isRunning /\ round = 15 /\ activeRuns = 1

\* C9: a run that has started returns the driver to idle; it ends after
\* exactly 30 rounds, each round adds one sample (1 to the sum of the
\* callCounts), and at its end the sum is 30 more than at its start.
RunCompletesAfter30Rounds ==
    /\ isRunning ~> ~isRunning
    /\ [][/\ lastOp'.kind = "end" =>
                /\ round = 30
                /\ TotalCalls(functions') = startSum + 30
          /\ lastOp'.kind = "start" =>
                /\ round' = 1
                /\ startSum' = TotalCalls(functions)
                /\ TotalCalls(functions') = TotalCalls(functions) + 1
          /\ isRunning /\ lastOp'.kind # "end" =>
                /\ lastOp'.kind = "round"
                /\ round' = round + 1
                /\ round' <= 30
                /\ TotalCalls(functions') = TotalCalls(functions) + 1
         ]_vars

\* a completed run that was started after a manual sample
RunCompletesWitness ==
    /\ lastOp.kind = "end" /\ ~isRunning
    /\ startSum = 1 /\ TotalCalls(functions) = 31

\* the samples of a timed run: the lines the last step logged for its sample
RoundLines == IF lastOp.kind = "start" THEN Tail(emitted) ELSE emitted

ResetOnlyThatRecord ==
    [][lastOp'.kind = "reset" =>
         \A i \in Indices :
            Stats(i).callCount >= 20 =>
               /\ functions'[i].stats.callCount = 0
               /\ functions'[i].stats.status = "cold"
               /\ \A j \in Indices \ {i} :
                    /\ functions'[j].stats = Stats(j)
                    /\ functions'[j].history = History(j)
      ]_vars

\* C11 amended: a reset performed when a record has received 20 samples or
\* more zeroes that record and every other record too: each record is left
\* with the zero stats and an empty history, whatever it held before.
ResetAfter20ZeroesAll ==
    [][lastOp'.kind = "reset" /\ (\E i \in Indices : Stats(i).callCount >= 20) =>
         \A j \in Indices :
            /\ functions'[j].stats = ResetStats
            /\ functions'[j].history = <<>>
      ]_vars

\* a reset applied when the samples numbered MaxCalls + 1: one record had
\* MaxCalls + 1 - MaxOther of them or more, and another record the rest;
\* all are zero after it
ResetAfter20Witness ==
    /\ lastOp.kind = "reset" /\ lastOp.pre = MaxCalls + 1
    /\ \A j \in Indices : Stats(j) = ResetStats /\ History(j) = <<>>

\* C12: for every record, while callCount > 0 totalTime is the sum of the
\* durations sampled on it since the last reset (each sample adds the
\* duration it appends to the history) and avgTime is totalTime / callCount,
\* a fraction with a positive denominator; while callCount = 0 totalTime
\* and avgTime are 0.  The divisor of a sample is the updated callCount,
\* which is at least 1.  (Up to 20 samples the history of either variant
\* still holds every duration sampled, so the sum is taken over it.)
AvgIsTotalOverCount ==
    /\ [](\A i \in Indices :
            LET s == Stats(i) IN
            /\ s.callCount = 0 => s.totalTime = 0 /\ s.avgTime = <<0, 1>>
            /\ s.callCount > 0 =>
                 /\ s.avgTime[2] > 0
                 /\ s.avgTime[1] * s.callCount = s.totalTime * s.avgTime[2]
            /\ s.callCount <= SimHistorySlice =>
                 /\ Len(History(i)) = s.callCount
                 /\ s.totalTime = SumSeq(History(i)))
    /\ [][\A i \in Indices :
            functions'[i].stats.callCount = Stats(i).callCount + 1 =>
               /\ functions'[i].stats.callCount >= 1
               /\ functions'[i].stats.totalTime
                    = Stats(i).totalTime + History(i)'[Len(History(i)')]
         ]_vars

\* real variant: three samples of 120 ms, 0 ms and 75 ms average to 65 ms
AvgIsTotalWitness ==
    \E i \in Indices :
       /\ History(i) = <<120000, 0, 75000>>
       /\ Stats(i).totalTime = 195000
       /\ Stats(i).avgTime = <<65000, 1>>

\* the least element of a non-empty sequence of durations
MinOf(h) == CHOOSE m \in {h[k] : k \in 1..Len(h)} : \A k \in 1..Len(h) : m <= h[k]

\* C13: in the real variant firstTime (and bestTime) is unset exactly while
\* callCount = 0; the first sample after a reset sets firstTime to its
\* duration and no later sample changes it; bestTime is the minimum of the
\* durations sampled since the last reset; so bestTime <= firstTime
\* whenever both are set.  (Up to 30 samples the history holds every
\* duration sampled.)
FirstTimeOnceBestTimeMin ==
    /\ [](variant = "real" =>
            \A i \in Indices :
               LET s == Stats(i) IN
               /\ s.firstTime = NULL <=> s.callCount = 0
               /\ s.bestTime = NULL <=> s.callCount = 0
               /\ s.callCount > 0 =>
                    /\ s.firstTime >= 0 /\ s.bestTime >= 0
                    /\ s.bestTime <= s.firstTime
               /\ s.callCount > 0 /\ s.callCount <= RealHistorySlice =>
                    /\ s.firstTime = History(i)[1]
                    /\ s.bestTime = MinOf(History(i)))
    /\ [][variant = "real" =>
            \A i \in Indices :
               LET old == Stats(i)
                   new == functions'[i].stats
                   time == new.totalTime - old.totalTime
               IN  new.callCount = old.callCount + 1 =>
                      /\ new.firstTime = (IF old.callCount = 0 THEN time
                                                               ELSE old.firstTime)
                      /\ new.bestTime = (IF old.callCount = 0 \/ time < old.bestTime
                                         THEN time ELSE old.bestTime)
         ]_vars

\* samples of 100 ms, 60 ms and 120 ms: the first time stays 100 ms and the
\* best time is the 60 ms of the second sample
FirstTimeBestTimeWitness ==
    \E i \in Indices :
       /\ History(i) = <<100000, 60000, 120000>>
       /\ Stats(i).firstTime = 100000
       /\ Stats(i).bestTime = 60000

\* C14: the history of a record is a FIFO window of its latest durations:
\* a sample of the record appends its duration at the tail and either keeps
\* every older entry or, the window being full, drops the oldest one and
\* keeps the others in order; a step that is neither a sample of the
\* record nor a reset leaves its history as it is.
HistoryIsFifoWindow ==
    [][\A i \in Indices :
         LET h == History(i)
             h2 == functions'[i].history
             time == functions'[i].stats.totalTime - Stats(i).totalTime
         IN  /\ functions'[i].stats.callCount = Stats(i).callCount + 1 =>
                  \/ h2 = h \o <<time>>
                  \/ h # <<>> /\ h2 = Tail(h) \o <<time>>
             /\ (functions'[i].stats.callCount # Stats(i).callCount + 1
                   /\ lastOp'.kind # "reset") => h2 = h
      ]_vars

\* real variant, 32 samples of a record whose first one took 120 ms: the
\* window has evicted that first duration and holds the 31 after it
HistoryIsFifoWitness ==
    /\ variant = "real"
    /\ \E i \in Indices :
         /\ Stats(i).callCount = 32
         /\ Stats(i).firstTime = 120000
         /\ Len(History(i)) = 31
         /\ \A k \in 1..31 : History(i)[k] = 100000

\* values of baseTime, in ms, on which the synthesized duration is probed
ProbeBases == {50, 75, 100, 125, 149}

\* C15: in the simulated variant, at every reachable optimizationLevel and
\* for every base in [50, 150) ms, the synthesized duration is at least
\* 5 ms, hence positive; at level 0 it lies in [50, 150) ms; and for a fixed
\* base it does not increase when a step raises the level.  The duration a
\* sample records obeys the same bounds.
SimTimeFloorAndTrend ==
    /\ [](variant = "simulated" =>
            \A i \in Indices : \A b \in ProbeBases :
               LET level == Stats(i).optimizationLevel
                   t == SimExecutionTime(b, level)
               IN  /\ t >= 5000 /\ t > 0
                   /\ level = <<0, 1>> => t >= 50000 /\ t < 150000)
    /\ [][variant = "simulated" =>
            \A i \in Indices :
               LET old == Stats(i)
                   new == functions'[i].stats
                   time == new.totalTime - old.totalTime
               IN  /\ RatLeq(old.optimizationLevel, new.optimizationLevel) =>
                        \A b \in ProbeBases :
                           SimExecutionTime(b, new.optimizationLevel)
                             <= SimExecutionTime(b, old.optimizationLevel)
                   /\ new.callCount = old.callCount + 1 =>
                        /\ time >= 5000
                        /\ old.optimizationLevel = <<0, 1>> =>
                             time >= 50000 /\ time < 150000
         ]_vars

\* the 22nd sample of a record, taken at level 5 with a base of 100 ms,
\* lasts 25 ms
SimTimeWitness ==
    /\ variant = "simulated"
    /\ \E i \in Indices :
         /\ Stats(i).callCount = 22
         /\ Stats(i).optimizationLevel = <<5, 1>>
         /\ History(i)[Len(History(i))] = 25000

\* C16: in the simulated variant a sample sets optimizationLevel by the
\* tier of the updated callCount: unchanged while cold, min(2, level + 0.2)
\* while warming, min(4, level + 0.3) while hot, min(5, level + 0.5) while
\* optimized.  So the level is in [0, 5], at most 2 while warming and at
\* most 4 while hot, and no step other than a reset lowers it.
SimLevelByTier ==
    /\ [](variant = "simulated" =>
            \A i \in Indices :
               LET s == Stats(i) IN
               /\ s.optimizationLevel[2] > 0
               /\ RatLeq(<<0, 1>>, s.optimizationLevel)
               /\ RatLeq(s.optimizationLevel, <<5, 1>>)
               /\ s.status = "cold" => s.optimizationLevel = <<0, 1>>
               /\ s.status = "warming" => RatLeq(s.optimizationLevel, <<2, 1>>)
               /\ s.status = "hot" => RatLeq(s.optimizationLevel, <<4, 1>>))
    /\ [][variant = "simulated" =>
            \A i \in Indices :
               LET old == Stats(i).optimizationLevel
                   new == functions'[i].stats.optimizationLevel
                   c == functions'[i].stats.callCount
                   plus(n, d) == <<old[1] * d + n * old[2], old[2] * d>>
                   same(p, q) == p[1] * q[2] = q[1] * p[2]
                   least(cap, q) == IF RatLeq(<<cap, 1>>, q) THEN <<cap, 1>> ELSE q
               IN  /\ c = Stats(i).callCount + 1 =>
                        same(new, CASE Tier(c) = "cold" -> old
                                    [] Tier(c) = "warming" -> least(2, plus(1, 5))
                                    [] Tier(c) = "hot" -> least(4, plus(3, 10))
                                    [] Tier(c) = "optimized" -> least(5, plus(1, 2)))
                   /\ lastOp'.kind # "reset" => RatLeq(old, new)
         ]_vars

\* a record at level 5 after 23 samples: the 22nd and the 23rd sample were
\* capped by min(5, level + 0.5)
SimLevelWitness ==
    /\ variant = "simulated"
    /\ \E i \in Indices :
         /\ Stats(i).callCount = 23
         /\ Stats(i).status = "optimized"
         /\ Stats(i).optimizationLevel = <<5, 1>>

\* C17: in the real variant, after every sample with firstTime > 0 the
\* optimizationLevel is (1 - bestTime / firstTime) * 20 clamped to [0, 5]:
\* it is in [0, 5] in every state and is 5 exactly when bestTime is at most
\* three quarters of firstTime; a sample with firstTime = 0 divides nothing
\* and leaves the level as it was.
RealLevelIsClampedRatio ==
    /\ [](variant = "real" =>
            \A i \in Indices :
               LET s == Stats(i)
                   l == s.optimizationLevel
               IN  /\ l[2] > 0 /\ l[1] >= 0 /\ l[1] <= 5 * l[2]
                   /\ s.callCount > 0 /\ s.firstTime > 0 =>
                        /\ (l = <<5, 1>>) <=> (4 * s.bestTime <= 3 * s.firstTime)
                        /\ 4 * s.bestTime > 3 * s.firstTime =>
                             l[1] * s.firstTime
                               = 20 * (s.firstTime - s.bestTime) * l[2])
    /\ [][variant = "real" =>
            \A i \in Indices :
               LET new == functions'[i].stats IN
               (new.callCount = Stats(i).callCount + 1 /\ new.firstTime = 0) =>
                  new.optimizationLevel = Stats(i).optimizationLevel
         ]_vars

\* a first sample of 100 ms and a best one of 75 ms, a quarter below it:
\* the level is 5
RealLevelWitness ==
    /\ variant = "real"
    /\ \E i \in Indices :
         /\ Stats(i).firstTime = 100000
         /\ Stats(i).bestTime = 75000
         /\ Stats(i).optimizationLevel = <<5, 1>>

\* C18: a sample, manual or of a timed run, of the record at index i
\* changes the stats and the history of that record only: every other
\* record is left as it was, and the records keep their number, their
\* positions, their names and their source texts, record i included.
SampleTouchesOneRecord ==
    [][lastOp'.kind \in {"manual", "start", "round"} =>
         /\ Len(functions') = Len(functions)
         /\ \E i \in Indices :
              /\ sampled'[i] = sampled[i] + 1
              /\ \A j \in Indices \ {i} :
                   sampled'[j] = sampled[j] /\ functions'[j] = functions[j]
              /\ functions'[i].stats.callCount = Stats(i).callCount + 1
              /\ functions'[i] = [functions[i] EXCEPT
                                    !.stats = functions'[i].stats,
                                    !.history = functions'[i].history]
      ]_vars

\* a round of a timed run has brought one record to 12 samples while
\* another record still holds the one sample it was given before the run
SampleTouchesOneWitness ==
    /\ lastOp.kind = "round"
    /\ \E i \in Indices : \E j \in Indices \ {i} :
         /\ Stats(i).callCount = 12 /\ sampled[i] = 12
         /\ Stats(j).callCount = 1 /\ Len(History(j)) = 1
         /\ functions[j].name # functions[i].name

====
